---- MODULE Spec2Model ----
(***************************************************************************)
(* Model of shuffle_node.py: one round of the five-phase shuffle protocol  *)
(* (key exchange, data submission, anonymization, verification,            *)
(* decryption) run by n_nodes nodes, node 0 being the leader.              *)
(*                                                                         *)
(* Byte strings are sequences of byte codes.  Wire tuples other than the   *)
(* packaged datum are kept as tagged terms.                                *)
(***************************************************************************)
EXTENDS Integers, Sequences, FiniteSets, TLC

\* ------------------------------------------------------------------------
\* Bounds of the model
\* ------------------------------------------------------------------------

\* max_len handed to every node's constructor
MaxLen == 2

\* a second, two-digit max_len used for the packaging functions alone
BigLen == 10

\* largest number of nodes of a round
MaxNodes == 3

\* ------------------------------------------------------------------------
\* Byte strings and the text pickle of the datum (cPickle.dumps, protocol 0)
\* ------------------------------------------------------------------------

\* the padding byte 'X'
PadByte == 88

\* message bytes the packaging functions are exercised on:
\* 'X', 'a', the quote ''', the newline
Alphabet == {PadByte, 97, 39, 10}

Min(a, b) == IF a < b THEN a ELSE b

\* s * k of Python: the empty string when k <= 0
Repeat(b, k) == IF k > 0 THEN [i \in 1..k |-> b] ELSE <<>>

Contains(s, b) == \E i \in 1..Len(s) : s[i] = b

RECURSIVE Decimal(_)
\* "%d" % n for n >= 0
Decimal(n) == IF n < 10 THEN <<48 + n>> ELSE Decimal(n \div 10) \o <<48 + (n % 10)>>

HexDigit(d) == IF d < 10 THEN 48 + d ELSE 87 + d

\* repr() of a str: quote is ' unless the string holds a ' and no "
QuoteOf(s) == IF Contains(s, 39) /\ ~Contains(s, 34) THEN 34 ELSE 39

EscapeByte(c, q) ==
    IF c = q \/ c = 92 THEN <<92, c>>
    ELSE IF c = 9 THEN <<92, 116>>
    ELSE IF c = 10 THEN <<92, 110>>
    ELSE IF c = 13 THEN <<92, 114>>
    ELSE IF c < 32 \/ c >= 127 THEN <<92, 120, HexDigit(c \div 16), HexDigit(c % 16)>>
    ELSE <<c>>

RECURSIVE EscapeAll(_, _)
EscapeAll(s, q) == IF s = <<>> THEN <<>> ELSE EscapeByte(Head(s), q) \o EscapeAll(Tail(s), q)

Repr(s) == <<QuoteOf(s)>> \o EscapeAll(s, QuoteOf(s)) \o <<QuoteOf(s)>>

\* cPickle.dumps((mlen, padded)): MARK, INT line, STRING line, TUPLE, STOP.
\* (memo PUT opcodes, of constant size here, are left out)
DumpsDatum(mlen, padded) ==
    <<40, 73>> \o Decimal(mlen) \o <<10>> \o <<83>> \o Repr(padded) \o <<10>> \o <<116, 46>>

BadParse == [ok |-> FALSE]

RECURSIVE ParseInt(_, _, _)
\* the decimal digits from position i up to the newline
ParseInt(s, i, acc) ==
    IF i > Len(s) THEN BadParse
    ELSE IF s[i] = 10 THEN [ok |-> TRUE, val |-> acc, next |-> i + 1]
    ELSE IF s[i] \in 48..57 THEN ParseInt(s, i + 1, acc * 10 + (s[i] - 48))
    ELSE BadParse

HexVal(c) == IF c \in 48..57 THEN c - 48 ELSE c - 87

RECURSIVE ParseStr(_, _, _, _)
\* the string-escape decoding of the quoted text from position i up to quote q
ParseStr(s, i, q, acc) ==
    IF i > Len(s) THEN BadParse
    ELSE IF s[i] = q THEN [ok |-> TRUE, val |-> acc, next |-> i + 1]
    ELSE IF s[i] # 92 THEN ParseStr(s, i + 1, q, Append(acc, s[i]))
    ELSE IF i + 1 > Len(s) THEN BadParse
    ELSE IF s[i + 1] = 116 THEN ParseStr(s, i + 2, q, Append(acc, 9))
    ELSE IF s[i + 1] = 110 THEN ParseStr(s, i + 2, q, Append(acc, 10))
    ELSE IF s[i + 1] = 114 THEN ParseStr(s, i + 2, q, Append(acc, 13))
    ELSE IF s[i + 1] = 120 THEN
        IF i + 3 > Len(s) THEN BadParse
        ELSE ParseStr(s, i + 4, q, Append(acc, 16 * HexVal(s[i + 2]) + HexVal(s[i + 3])))
    ELSE ParseStr(s, i + 2, q, Append(acc, s[i + 1]))

\* cPickle.loads of a datum: [ok, mlen, padded]
LoadsDatum(s) ==
    IF Len(s) < 3 \/ s[1] # 40 \/ s[2] # 73 THEN BadParse
    ELSE LET n == ParseInt(s, 3, 0) IN
         IF ~n.ok \/ n.next + 1 > Len(s) THEN BadParse
         ELSE IF s[n.next] # 83 \/ s[n.next + 1] \notin {34, 39} THEN BadParse
         ELSE LET p == ParseStr(s, n.next + 2, s[n.next + 1], <<>>) IN
              IF ~p.ok THEN BadParse
              ELSE IF SubSeq(s, p.next, Len(s)) # <<10, 116, 46>> THEN BadParse
              ELSE [ok |-> TRUE, mlen |-> n.val, padded |-> p.val]

\* ------------------------------------------------------------------------
\* package_msg / unpackage_msg
\* ------------------------------------------------------------------------

\* self.msg_contents after package_msg: never raises, whatever len(msg)
package_msg(msg, max_len) ==
    DumpsDatum(Len(msg), msg \o Repeat(PadByte, max_len - Len(msg)))

\* mutant: strips the trailing padding bytes instead of cutting at mlen
unpackage_msg_strip(msg_str, max_len) ==
    LET t == LoadsDatum(msg_str)
        RECURSIVE Strip(_)
        Strip(s) == IF s # <<>> /\ s[Len(s)] = PadByte
                    THEN Strip(SubSeq(s, 1, Len(s) - 1)) ELSE s
    IN IF ~t.ok THEN [ok |-> FALSE, err |-> "EncodingInvalid"]
       ELSE IF Len(t.padded) # max_len THEN [ok |-> FALSE, err |-> "LengthMismatch"]
       ELSE [ok |-> TRUE, val |-> Strip(t.padded)]

\* unpackage_msg: [ok, val] or [ok, err]
unpackage_msg(msg_str, max_len) ==
    LET t == LoadsDatum(msg_str) IN
    IF ~t.ok THEN [ok |-> FALSE, err |-> "EncodingInvalid"]
    ELSE IF Len(t.padded) # max_len THEN [ok |-> FALSE, err |-> "LengthMismatch"]
    ELSE [ok |-> TRUE, val |-> SubSeq(t.padded, 1, Min(t.mlen, Len(t.padded)))]

\* ------------------------------------------------------------------------
\* AnonCrypto and cPickle on protocol tuples, as tagged terms
\* ------------------------------------------------------------------------

None == [t |-> "none"]

\* a byte string travelling inside a protocol tuple
Str(bytes) == [t |-> "str", bytes |-> bytes]

Ok(v) == [ok |-> TRUE, val |-> v]
Err(e) == [ok |-> FALSE, err |-> e]

\* AnonCrypto.random_key: the k-th keypair (k = 1, 2) of node id
PrivKey(k, id) == [t |-> "priv", k |-> k, id |-> id]
PubKey(k, id) == [t |-> "pub", k |-> k, id |-> id]
PubOf(priv) == PubKey(priv.k, priv.id)

\* the PEM text of a key (save_pub_key / key_from_file / priv_key_to_str)
KeyToStr(key) == [t |-> "pem", key |-> key]
\* pub_key_from_str, priv_key_from_str
KeyFromStr(s) == IF s.t = "pem" THEN Ok(s.key) ELSE Err("EncodingInvalid")

\* encrypt_with_rsa: r stands for the fresh randomness of the RSA padding
\* (the encrypting node)
encrypt_with_rsa(pub, m, r) == [t |-> "enc", k |-> pub.k, id |-> pub.id, r |-> r, body |-> m]

decrypt_with_rsa(priv, c) ==
    IF c.t = "enc" /\ priv.t = "priv" /\ c.k = priv.k /\ c.id = priv.id
    THEN Ok(c.body) ELSE Err("DecryptFailed")

\* sign(id, key, msg): a blob holding the signer id, the message and the signature
sign(id, key, m) == [t |-> "sig", id |-> id, k |-> key.k, by |-> key.id, msg |-> m]

\* verify(pub_keys, blob): the signer's K1 from the keyset checks the signature
verify(keys, blob) ==
    IF blob.t # "sig" THEN Err("BadSignature")
    ELSE IF blob.id \notin DOMAIN keys THEN Err("KeyMissing")
    ELSE IF keys[blob.id][1] = PubKey(blob.k, blob.by) THEN Ok(blob.msg)
    ELSE Err("BadSignature")

\* hash_list: order-sensitive and collision-free
hash_list(l) == [t |-> "hash", of |-> l]

\* cPickle.dumps of a protocol tuple of the given shape, v naming its fields
Pickle(kind, v) == [t |-> "pkl", kind |-> kind, v |-> v]
\* cPickle.loads followed by the tuple unpacking of the caller
Loads(kind, p) == IF p.t = "pkl" /\ p.kind = kind THEN Ok(p.v) ELSE Err("EncodingInvalid")

\* ------------------------------------------------------------------------
\* The handlers' computations
\* ------------------------------------------------------------------------

RECURSIVE EncryptDown_asc(_, _, _, _, _)
\* mutant: the keys are applied in ascending order of node id, 0 first
EncryptDown_asc(c, keys, which, i, r) ==
    IF i < 0 THEN c
    ELSE encrypt_with_rsa(keys[i][which], EncryptDown_asc(c, keys, which, i - 1, r), r)

RECURSIVE EncryptDown(_, _, _, _, _)
\* for i in xrange(i, -1, -1): c = encrypt_with_rsa(pub_keys[i][which], c)
EncryptDown(c, keys, which, i, r) ==
    IF i < 0 THEN c
    ELSE EncryptDown(encrypt_with_rsa(keys[i][which], c, r), keys, which, i - 1, r)

\* create_cipher_string: [ok, cipher_prime, cipher]
create_cipher_string(self) ==
    IF \E i \in 0..(self.n_nodes - 1) : i \notin DOMAIN self.pub_keys
    THEN Err("KeyMissing")
    ELSE LET cp == EncryptDown(self.msg_contents, self.pub_keys, 2, self.n_nodes - 1, self.id)
         IN [ok |-> TRUE, cipher_prime |-> cp,
             cipher |-> EncryptDown(cp, self.pub_keys, 1, self.n_nodes - 1, self.id)]

\* cPickle.dumps((round_id, ctext))
CTuple(round, ctext) == Pickle("ctuple", [round |-> round, ctext |-> ctext])

\* the permutations random.shuffle is taken to pick from: the identity, the
\* rotation by one and the swap of the first two, which generate all the others
Perms(n) ==
    {[i \in 1..n |-> i], [i \in 1..n |-> (i % n) + 1],
     [i \in 1..n |-> IF i = 1 THEN Min(2, n) ELSE IF i = 2 THEN 1 ELSE i]}

Permuted(l, p) == [i \in 1..Len(l) |-> l[p[i]]]

RECURSIVE DecryptEach(_, _, _)
\* the loop of shuffle_and_decrypt over the shuffled data_in
DecryptEach(l, key1, round) ==
    IF l = <<>> THEN Ok(<<>>)
    ELSE LET t == Loads("ctuple", Head(l)) IN
         IF ~t.ok THEN t
         ELSE IF t.val.round # round THEN Err("RoundMismatch")
         ELSE LET d == decrypt_with_rsa(key1, t.val.ctext) IN
              IF ~d.ok THEN d
              ELSE LET rest == DecryptEach(Tail(l), key1, round) IN
                   IF ~rest.ok THEN rest
                   ELSE Ok(<<CTuple(round, d.val)>> \o rest.val)

\* mutant: the elements are decrypted in the order received and the decrypted
\* list is permuted; data_in is left as received
shuffle_and_decrypt_late(data_in, p, key1, round) ==
    LET out == DecryptEach(data_in, key1, round)
    IN IF ~out.ok THEN out
       ELSE [ok |-> TRUE, data_in |-> data_in, data_out |-> Permuted(out.val, p)]

\* shuffle_and_decrypt with random.shuffle choosing p: [ok, data_in, data_out]
shuffle_and_decrypt(data_in, p, key1, round) ==
    LET sh == Permuted(data_in, p)
        out == DecryptEach(sh, key1, round)
    IN IF ~out.ok THEN out
       ELSE [ok |-> TRUE, data_in |-> sh, data_out |-> out.val]

\* my_cipher_str in self.final_ciphers
InList(x, l) == \E i \in 1..Len(l) : l[i] = x

\* mutant: the vote says go whether or not the node's own ciphertext is in the set
go_msg_always(self) ==
    Pickle("go", [id |-> self.id, round |-> self.round_id, go |-> TRUE,
                  hash |-> hash_list(self.final_ciphers)])

\* the unsigned vote of run_phase4
go_msg(self) ==
    Pickle("go", [id |-> self.id, round |-> self.round_id,
                  go |-> InList(CTuple(self.round_id, self.cipher_prime),
                                self.final_ciphers),
                  hash |-> hash_list(self.final_ciphers)])

RECURSIVE CheckVotes(_, _, _, _)
CheckVotes(go_lst, hashval, keys, round) ==
    IF go_lst = <<>> THEN Ok(TRUE)
    ELSE LET v == verify(keys, Head(go_lst)) IN
         IF ~v.ok THEN v
         ELSE LET t == Loads("go", v.val) IN
              IF ~t.ok THEN t
              ELSE IF t.val.round # round THEN Err("RoundMismatch")
              ELSE IF ~t.val.go THEN Err("VerifyFailed")
              ELSE IF t.val.hash # hashval THEN Err("VerifyFailed")
              ELSE CheckVotes(Tail(go_lst), hashval, keys, round)

RECURSIVE CheckVotesNoGo(_, _, _, _)
CheckVotesNoGo(go_lst, hashval, keys, round) ==
    IF go_lst = <<>> THEN Ok(TRUE)
    ELSE LET v == verify(keys, Head(go_lst)) IN
         IF ~v.ok THEN v
         ELSE LET t == Loads("go", v.val) IN
              IF ~t.ok THEN t
              ELSE IF t.val.round # round THEN Err("RoundMismatch")
              ELSE IF t.val.hash # hashval THEN Err("VerifyFailed")
              ELSE CheckVotesNoGo(Tail(go_lst), hashval, keys, round)

\* mutant: the go flag of the votes is not looked at
check_go_data_nogo(hashval, pickled_list, keys, round) ==
    LET l == Loads("golist", pickled_list) IN
    IF ~l.ok THEN l ELSE CheckVotesNoGo(l.val.votes, hashval, keys, round)

\* check_go_data: Ok(TRUE) or the error raised
check_go_data(hashval, pickled_list, keys, round) ==
    LET l == Loads("golist", pickled_list) IN
    IF ~l.ok THEN l ELSE CheckVotes(l.val.votes, hashval, keys, round)

RECURSIVE CollectKeys(_, _, _, _)
\* the first loop of decrypt_ciphers: priv_keys, or the error raised
CollectKeys(keyset, keys, round, acc) ==
    IF keyset = <<>> THEN Ok(acc)
    ELSE LET v == verify(keys, Head(keyset)) IN
         IF ~v.ok THEN v
         ELSE LET t == Loads("key", v.val) IN
              IF ~t.ok THEN t
              ELSE IF t.val.round # round THEN Err("RoundMismatch")
              ELSE LET k == KeyFromStr(t.val.keystr) IN
                   IF ~k.ok THEN k
                   ELSE CollectKeys(Tail(keyset), keys, round, (t.val.id :> k.val) @@ acc)

RECURSIVE DecryptUp(_, _, _, _)
\* for i in xrange(i, n_nodes): c = decrypt_with_rsa(priv_keys[i], c)
DecryptUp(c, priv_keys, i, n) ==
    IF i >= n THEN Ok(c)
    ELSE IF i \notin DOMAIN priv_keys THEN Err("KeyMissing")
    ELSE LET d == decrypt_with_rsa(priv_keys[i], c) IN
         IF ~d.ok THEN d ELSE DecryptUp(d.val, priv_keys, i + 1, n)

RECURSIVE DecryptAll(_, _, _, _, _)
\* the second loop of decrypt_ciphers: plaintexts, or the error raised
DecryptAll(ciphers, priv_keys, round, n, max_len) ==
    IF ciphers = <<>> THEN Ok(<<>>)
    ELSE LET t == Loads("ctuple", Head(ciphers)) IN
         IF ~t.ok THEN t
         ELSE IF t.val.round # round THEN Err("RoundMismatch")
         ELSE LET d == DecryptUp(t.val.ctext, priv_keys, 0, n) IN
              IF ~d.ok THEN d
              ELSE IF d.val.t # "str" THEN Err("EncodingInvalid")
              ELSE LET m == unpackage_msg(d.val.bytes, max_len) IN
                   IF ~m.ok THEN m
                   ELSE LET rest == DecryptAll(Tail(ciphers), priv_keys, round, n, max_len) IN
                        IF ~rest.ok THEN rest ELSE Ok(<<m.val>> \o rest.val)

\* mutant: the last element of final_ciphers is not decrypted
decrypt_ciphers_short(self, keyset) ==
    LET pk == CollectKeys(keyset, self.pub_keys, self.round_id, <<>>) IN
    IF ~pk.ok THEN pk
    ELSE DecryptAll(SubSeq(self.final_ciphers, 1, Len(self.final_ciphers) - 1),
                    pk.val, self.round_id, self.n_nodes, self.max_len)

\* decrypt_ciphers: Ok(anon_data) or the error raised
decrypt_ciphers(self, keyset) ==
    LET pk == CollectKeys(keyset, self.pub_keys, self.round_id, <<>>) IN
    IF ~pk.ok THEN pk
    ELSE DecryptAll(self.final_ciphers, pk.val, self.round_id, self.n_nodes, self.max_len)

\* ------------------------------------------------------------------------
\* State
\* ------------------------------------------------------------------------

VARIABLES
    n_nodes,    \* the n_nodes every constructor was given
    node,       \* node[i]: the fields of the shuffle_node object with id i
    inbox,      \* inbox[i]: the frames that reached node i's port, in arrival order
    deviant,    \* the one node that may forward an altered Phase-3 list (-1: nobody)
    tampered,   \* how the deviant altered the list it forwarded ("none" if not yet)
    killed,     \* the one node whose process is killed after Phase 2 (-1: nobody)
    flip,       \* a signed frame may be altered in transit: "off", "armed", "done"
    pk          \* the packaging functions applied to one message on their own

vars == <<n_nodes, node, inbox, deviant, tampered, killed, flip, pk>>

Nodes == 0..(n_nodes - 1)

Rounds == {1, 2}

\* the message files of the round: empty, one byte, exactly max_len bytes
\* ending in the padding byte, and one byte longer than max_len
ProtoMsgs == {<<>>, <<97>>, Repeat(97, MaxLen - 1) \o <<PadByte>>, Repeat(97, MaxLen + 1)}

am_leader(self) == self.id = 0
am_last(self) == self.id = self.n_nodes - 1

\* __init__: the object after construction
NewNode(id, n, round, msg_file, max_len) ==
    [id |-> id, n_nodes |-> n, round_id |-> round, max_len |-> max_len,
     leader_addr |-> 0, next_addr |-> (id + 1) % n,
     phase |-> 0, pc |-> "p1_start", err |-> "",
     msg |-> msg_file,
     msg_contents |-> Str(package_msg(msg_file, max_len)),
     pub_keys |-> <<>>, key1 |-> None, key2 |-> None, addrs |-> <<>>,
     cipher |-> None, cipher_prime |-> None,
     data_in |-> <<>>, data_out |-> <<>>, final_ciphers |-> <<>>,
     go_data |-> None, go_checked |-> FALSE, anon_data |-> <<>>,
     seen_bad_round |-> FALSE, took_flipped |-> FALSE]

PkIdle == [pc |-> "idle", msg |-> <<>>, max_len |-> 0, datum |-> <<>>, out |-> Err("")]

DefaultMsg == <<97>>

\* the rounds started: every node but at most one submits DefaultMsg; or one node
\* was given another round_id; or one node deviates in Phase 3; or one node is
\* killed after Phase 2; or one signed frame is altered in transit
Scenarios(n) ==
    LET N == 0..(n - 1)
        same == [i \in N |-> 1]
        dflt == [i \in N |-> DefaultMsg]
    IN {[rounds |-> same, msgs |-> m, deviant |-> -1, killed |-> -1, flip |-> "off"] :
            m \in {f \in [N -> ProtoMsgs] : Cardinality({i \in N : f[i] # DefaultMsg}) <= 1}}
       \cup {[rounds |-> [same EXCEPT ![i] = 2], msgs |-> dflt, deviant |-> -1, killed |-> -1, flip |-> "off"] : i \in N}
       \cup {[rounds |-> same, msgs |-> dflt, deviant |-> d, killed |-> -1, flip |-> "off"] : d \in N}
       \cup {[rounds |-> same, msgs |-> dflt, deviant |-> -1, killed |-> k, flip |-> "off"] : k \in N}
       \cup {[rounds |-> same, msgs |-> dflt, deviant |-> -1, killed |-> -1, flip |-> "armed"]}

Init ==
    /\ n_nodes \in 2..MaxNodes
    /\ \E sc \in Scenarios(n_nodes) :
          /\ node = [i \in Nodes |-> NewNode(i, n_nodes, sc.rounds[i], sc.msgs[i], MaxLen)]
          /\ deviant = sc.deviant
          /\ killed = sc.killed
          /\ flip = sc.flip
    /\ inbox = [i \in Nodes |-> <<>>]
    /\ tampered = "none"
    /\ pk = PkIdle

\* ------------------------------------------------------------------------
\* Network utility functions
\* ------------------------------------------------------------------------

\* a frame on its way: src, ph and tainted record who sent it, in which phase, and
\* whether the sender had by then received a foreign round_id
Frame(self, to, body) ==
    [src |-> self.id, ph |-> self.phase, to |-> to, tainted |-> FALSE, body |-> body]

\* send_to_addr
send_to_addr(self, to, m, signed) ==
    Frame(self, to, IF signed THEN sign(self.id, self.key1, m) ELSE m)

\* send_to_leader
send_to_leader(self, m, signed) == send_to_addr(self, self.leader_addr, m, signed)

\* mutant: the loop over the collected addresses stops one address short
broadcast_to_all_nodes_short(self, m, signed) ==
    [i \in 1..(self.n_nodes - 2) |-> send_to_addr(self, self.addrs[i], m, signed)]

\* broadcast_to_all_nodes: one frame per collected address, in that order
broadcast_to_all_nodes(self, m, signed) ==
    [i \in 1..(self.n_nodes - 1) |-> send_to_addr(self, self.addrs[i], m, signed)]

RECURSIVE DeliverAll(_, _)
DeliverAll(inb, frames) ==
    IF frames = <<>> THEN inb
    ELSE DeliverAll([inb EXCEPT ![Head(frames).to] = Append(@, Head(frames))], Tail(frames))

\* mutant: the signed blobs are unwrapped without verify
VerifyAll_nocheck(keys, l) == Ok([i \in 1..Len(l) |-> l[i].msg])

RECURSIVE VerifyAll(_, _)
VerifyAll(keys, l) ==
    IF l = <<>> THEN Ok(<<>>)
    ELSE LET v == verify(keys, Head(l)) IN
         IF ~v.ok THEN v
         ELSE LET rest == VerifyAll(keys, Tail(l)) IN
              IF ~rest.ok THEN rest ELSE Ok(<<v.val>> \o rest.val)

\* recv_from_n: the first k frames of the node's port, verified or not
recv_from_n(self, k, verified) ==
    LET raw == [i \in 1..k |-> inbox[self.id][i].body] IN
    IF verified THEN VerifyAll(self.pub_keys, raw) ELSE Ok(raw)

\* recv_cipher_set
recv_cipher_set(self) ==
    LET d == recv_from_n(self, 1, TRUE) IN
    IF ~d.ok THEN d
    ELSE LET l == Loads("list", d.val[1]) IN
         IF ~l.ok THEN l ELSE Ok(l.val.items)

CanRecv(n, k) == Len(inbox[n]) >= k

Fail(self, e) == [self EXCEPT !.pc = "error", !.err = e]

\* mutant: the counter is left as it is
advance_phase_stay(self) == self

\* advance_phase
advance_phase(self) == [self EXCEPT !.phase = @ + 1]

RECURSIVE ForeignRound(_, _)
\* does the received blob embed a round_id other than round
ForeignRound(b, round) ==
    IF b.t = "sig" THEN ForeignRound(b.msg, round)
    ELSE IF b.t # "pkl" THEN FALSE
    ELSE IF b.kind \in {"join", "keyset", "ctuple", "go", "key"} THEN b.v.round # round
    ELSE IF b.kind = "list" THEN \E i \in 1..Len(b.v.items) : ForeignRound(b.v.items[i], round)
    ELSE IF b.kind = "golist" THEN \E i \in 1..Len(b.v.votes) : ForeignRound(b.v.votes[i], round)
    ELSE IF b.kind = "keylist" THEN \E i \in 1..Len(b.v.reveals) : ForeignRound(b.v.reveals[i], round)
    ELSE FALSE

RECURSIVE Flipped(_)
\* does the received blob hold a signed blob whose signature was damaged
Flipped(b) ==
    IF b.t = "sig" THEN b.by = -1 \/ Flipped(b.msg)
    ELSE IF b.t # "pkl" THEN FALSE
    ELSE IF b.kind = "golist" THEN \E i \in 1..Len(b.v.votes) : Flipped(b.v.votes[i])
    ELSE IF b.kind = "keylist" THEN \E i \in 1..Len(b.v.reveals) : Flipped(b.v.reveals[i])
    ELSE FALSE

\* one step of node n: its new fields, the k frames it took, the frames it sent
Step(n, new, k, frames) ==
    LET bad == node[n].seen_bad_round
               \/ \E i \in 1..k : ForeignRound(inbox[n][i].body, node[n].round_id)
        flp == node[n].took_flipped \/ \E i \in 1..k : Flipped(inbox[n][i].body)
    IN /\ node' = [node EXCEPT ![n] = [new EXCEPT !.seen_bad_round = bad,
                                                  !.took_flipped = flp]]
       /\ inbox' = DeliverAll([inbox EXCEPT ![n] = SubSeq(@, k + 1, Len(@))],
                              [i \in 1..Len(frames) |-> [frames[i] EXCEPT !.tainted = bad]])
       /\ UNCHANGED <<n_nodes, deviant, tampered, killed, flip, pk>>

\* ------------------------------------------------------------------------
\* Phase 1: key exchange
\* ------------------------------------------------------------------------

\* generate_keys
generate_keys(self) ==
    [self EXCEPT !.key1 = PrivKey(1, self.id), !.key2 = PrivKey(2, self.id),
                 !.pub_keys = (self.id :> <<PubKey(1, self.id), PubKey(2, self.id)>>) @@ @]

\* the (K1 text, signed K2 text) pair a node publishes
OwnKeyPair(self) ==
    <<KeyToStr(PubOf(self.key1)), sign(self.id, self.key1, KeyToStr(PubOf(self.key2)))>>

\* phase1_msg: (id, round_id, address, K1, signed K2)
phase1_msg(self) ==
    Pickle("join", [id |-> self.id, round |-> self.round_id, addr |-> self.id,
                    key1 |-> OwnKeyPair(self)[1], key2 |-> OwnKeyPair(self)[2]])

RECURSIVE UnpickleJoins(_, _, _, _, _)
\* the loop of unpickle_pub_keys
UnpickleJoins(msgs, round, keys, addrs, key_dict) ==
    IF msgs = <<>> THEN [ok |-> TRUE, pub_keys |-> keys, addrs |-> addrs, key_dict |-> key_dict]
    ELSE LET t == Loads("join", Head(msgs)) IN
         IF ~t.ok THEN t
         ELSE IF t.val.round # round THEN Err("RoundMismatch")
         ELSE LET k1 == KeyFromStr(t.val.key1) IN
              IF ~k1.ok THEN k1
              ELSE LET v == verify((t.val.id :> <<k1.val, k1.val>>) @@ keys, t.val.key2) IN
                   IF ~v.ok THEN v
                   ELSE LET k2 == KeyFromStr(v.val) IN
                        IF ~k2.ok THEN k2
                        ELSE UnpickleJoins(Tail(msgs), round,
                                           (t.val.id :> <<k1.val, k2.val>>) @@ keys,
                                           Append(addrs, t.val.addr),
                                           (t.val.id :> <<t.val.key1, t.val.key2>>) @@ key_dict)

\* mutant: the leader's own keys are left out of the key dictionary
unpickle_pub_keys_noself(self, msgs) ==
    LET r == UnpickleJoins(msgs, self.round_id, self.pub_keys, <<>>, <<>>) IN
    IF ~r.ok THEN r
    ELSE [ok |-> TRUE, pub_keys |-> r.pub_keys, addrs |-> r.addrs,
          next_msg |-> Pickle("keyset", [round |-> self.round_id, keydict |-> r.key_dict])]

\* unpickle_pub_keys: [ok, pub_keys, addrs, next_msg]
unpickle_pub_keys(self, msgs) ==
    LET r == UnpickleJoins(msgs, self.round_id, self.pub_keys, <<>>,
                           (self.id :> OwnKeyPair(self))) IN
    IF ~r.ok THEN r
    ELSE [ok |-> TRUE, pub_keys |-> r.pub_keys, addrs |-> r.addrs,
          next_msg |-> Pickle("keyset", [round |-> self.round_id, keydict |-> r.key_dict])]

RECURSIVE UnpickleEntries(_, _, _)
\* the loop of unpickle_keyset over the ids of keydict
UnpickleEntries(ids, keydict, keys) ==
    IF ids = {} THEN Ok(keys)
    ELSE LET i == CHOOSE x \in ids : \A y \in ids : x <= y
             k1 == KeyFromStr(keydict[i][1])
         IN IF ~k1.ok THEN k1
            ELSE LET v == verify((i :> <<k1.val, k1.val>>) @@ keys, keydict[i][2]) IN
                 IF ~v.ok THEN v
                 ELSE LET k2 == KeyFromStr(v.val) IN
                      IF ~k2.ok THEN k2
                      ELSE UnpickleEntries(ids \ {i}, keydict, (i :> <<k1.val, k2.val>>) @@ keys)

\* unpickle_keyset: Ok(pub_keys) or the error raised
unpickle_keyset(self, keys) ==
    LET t == Loads("keyset", keys) IN
    IF ~t.ok THEN t
    ELSE IF t.val.round # self.round_id THEN Err("RoundMismatch")
    ELSE UnpickleEntries(DOMAIN t.val.keydict, t.val.keydict, self.pub_keys)

\* have_all_keys
have_all_keys(self) == Cardinality(DOMAIN self.pub_keys) = self.n_nodes

\* run_phase1 up to the first receive
Phase1Start(n) ==
    /\ node[n].pc = "p1_start"
    /\ LET s == generate_keys(advance_phase(node[n])) IN
       IF am_leader(s)
       THEN Step(n, [s EXCEPT !.pc = "p1_recv"], 0, <<>>)
       ELSE Step(n, [s EXCEPT !.pc = "p1_recv"], 0, <<send_to_leader(s, phase1_msg(s), FALSE)>>)

\* run_phase1 of the leader, from recv_from_n(n_nodes - 1) on
Phase1Leader(n) ==
    /\ node[n].pc = "p1_recv" /\ am_leader(node[n])
    /\ CanRecv(n, n_nodes - 1)
    /\ LET s == node[n]
           k == n_nodes - 1
           r == unpickle_pub_keys(s, recv_from_n(s, k, FALSE).val)
       IN IF ~r.ok THEN Step(n, Fail(s, r.err), k, <<>>)
          ELSE LET s1 == [s EXCEPT !.pub_keys = r.pub_keys, !.addrs = r.addrs] IN
               IF ~have_all_keys(s1) THEN Step(n, Fail(s1, "KeyMissing"), k, <<>>)
               ELSE Step(n, [s1 EXCEPT !.pc = "p2_start"], k,
                         broadcast_to_all_nodes(s1, r.next_msg, FALSE))

\* run_phase1 of a non-leader, from recv_from_n(1) on
Phase1Peer(n) ==
    /\ node[n].pc = "p1_recv" /\ ~am_leader(node[n])
    /\ CanRecv(n, 1)
    /\ LET s == node[n]
           r == unpickle_keyset(s, recv_from_n(s, 1, FALSE).val[1])
       IN IF ~r.ok THEN Step(n, Fail(s, r.err), 1, <<>>)
          ELSE Step(n, [s EXCEPT !.pub_keys = r.val, !.pc = "p2_start"], 1, <<>>)

\* ------------------------------------------------------------------------
\* Phase 2: data submission
\* ------------------------------------------------------------------------

\* run_phase2 up to the leader's receive, or all of it at a non-leader
Phase2Start(n) ==
    /\ node[n].pc = "p2_start"
    /\ LET s == advance_phase(node[n])
           c == create_cipher_string(s)
       IN IF ~c.ok THEN Step(n, Fail(s, c.err), 0, <<>>)
          ELSE LET s1 == [s EXCEPT !.cipher_prime = c.cipher_prime, !.cipher = c.cipher] IN
               IF am_leader(s1)
               THEN Step(n, [s1 EXCEPT !.pc = "p2_recv"], 0, <<>>)
               ELSE Step(n, [s1 EXCEPT !.pc = "p3_start"], 0,
                         <<send_to_leader(s1, CTuple(s1.round_id, s1.cipher), TRUE)>>)

\* mutant: the leader does not add its own cipher to the set
run_phase2_collect_noself(self, received) == received

\* the leader's data_in at the end of run_phase2
run_phase2_collect(self, received) ==
    Append(received, CTuple(self.round_id, self.cipher))

\* run_phase2 of the leader, from recv_from_n(n_nodes - 1) on
Phase2Leader(n) ==
    /\ node[n].pc = "p2_recv"
    /\ CanRecv(n, n_nodes - 1)
    /\ LET s == node[n]
           k == n_nodes - 1
           d == recv_from_n(s, k, TRUE)
       IN IF ~d.ok THEN Step(n, Fail(s, d.err), k, <<>>)
          ELSE Step(n, [s EXCEPT !.data_in = run_phase2_collect(s, d.val),
                                 !.pc = "p3_start"], k, <<>>)

\* ------------------------------------------------------------------------
\* Phase 3: anonymization
\* ------------------------------------------------------------------------

\* the forward at the end of run_phase3: to the leader if last, else to next_addr
Forward(self, outstr) ==
    IF am_last(self) THEN send_to_leader(self, outstr, TRUE)
    ELSE send_to_addr(self, self.next_addr, outstr, TRUE)

\* shuffle_and_decrypt and the forward, with the permutation random.shuffle picks
ShuffleForward(n, s, k, next_pc) ==
    \E p \in Perms(Len(s.data_in)) :
        LET r == shuffle_and_decrypt(s.data_in, p, s.key1, s.round_id) IN
        IF ~r.ok THEN Step(n, Fail(s, r.err), k, <<>>)
        ELSE LET s1 == [s EXCEPT !.data_in = r.data_in, !.data_out = r.data_out] IN
             Step(n, [s1 EXCEPT !.pc = next_pc], k, <<Forward(s1, Pickle("list", [items |-> s1.data_out]))>>)

\* run_phase3 up to the first receive (the leader shuffles and forwards first)
Phase3Start(n) ==
    /\ node[n].pc = "p3_start"
    /\ LET s == advance_phase(node[n]) IN
       IF am_leader(s) THEN ShuffleForward(n, s, 0, "p3_recv")
       ELSE Step(n, [s EXCEPT !.pc = "p3_recv"], 0, <<>>)

\* run_phase3 of a non-leader, from recv_cipher_set on
Phase3Peer(n) ==
    /\ node[n].pc = "p3_recv" /\ ~am_leader(node[n])
    /\ CanRecv(n, 1)
    /\ LET s == node[n]
           l == recv_cipher_set(s)
       IN IF ~l.ok THEN Step(n, Fail(s, l.err), 1, <<>>)
          ELSE ShuffleForward(n, [s EXCEPT !.data_in = l.val], 1, "p4_start")

\* mutant: the leader does not wait for the list of the last node
Phase3Leader_nowait(n) ==
    /\ node[n].pc = "p3_recv" /\ am_leader(node[n])
    /\ Step(n, [node[n] EXCEPT !.pc = "p4_start"], 0, <<>>)

\* run_phase3 of the leader: the list coming back from the last node
Phase3Leader(n) ==
    /\ node[n].pc = "p3_recv" /\ am_leader(node[n])
    /\ CanRecv(n, 1)
    /\ LET s == node[n]
           l == recv_cipher_set(s)
       IN IF ~l.ok THEN Step(n, Fail(s, l.err), 1, <<>>)
          ELSE Step(n, [s EXCEPT !.data_in = l.val, !.pc = "p4_start"], 1, <<>>)

\* ------------------------------------------------------------------------
\* Phase 4: verification
\* ------------------------------------------------------------------------

\* run_phase4 up to the first receive (the leader broadcasts data_in first)
Phase4Start(n) ==
    /\ node[n].pc = "p4_start"
    /\ LET s == advance_phase(node[n]) IN
       IF am_leader(s)
       THEN Step(n, [s EXCEPT !.final_ciphers = s.data_in, !.pc = "p4_recv"], 0,
                 broadcast_to_all_nodes(s, Pickle("list", [items |-> s.data_in]), TRUE))
       ELSE Step(n, [s EXCEPT !.pc = "p4_recvF"], 0, <<>>)

\* mutant: a non-leader that misses its own ciphertext raises instead of voting
Phase4PeerF_raise(n) ==
    /\ node[n].pc = "p4_recvF"
    /\ CanRecv(n, 1)
    /\ LET s == node[n]
           l == recv_cipher_set(s)
       IN IF ~l.ok THEN Step(n, Fail(s, l.err), 1, <<>>)
          ELSE LET s1 == [s EXCEPT !.final_ciphers = l.val] IN
               IF ~InList(CTuple(s1.round_id, s1.cipher_prime), s1.final_ciphers)
               THEN Step(n, Fail(s1, "VerifyFailed"), 1, <<>>)
               ELSE Step(n, [s1 EXCEPT !.pc = "p4_recv"], 1,
                         <<send_to_leader(s1, go_msg(s1), TRUE)>>)

\* mutant: the node does not wait for the vote set once its vote has left
Phase4PeerF_ahead(n) ==
    /\ node[n].pc = "p4_recvF"
    /\ CanRecv(n, 1)
    /\ LET s == node[n]
           l == recv_cipher_set(s)
       IN IF ~l.ok THEN Step(n, Fail(s, l.err), 1, <<>>)
          ELSE LET s1 == [s EXCEPT !.final_ciphers = l.val] IN
               Step(n, [s1 EXCEPT !.pc = "p5_start"], 1, <<send_to_leader(s1, go_msg(s1), TRUE)>>)

\* run_phase4 of a non-leader: the final list arrives, the vote leaves
Phase4PeerF(n) ==
    /\ node[n].pc = "p4_recvF"
    /\ CanRecv(n, 1)
    /\ LET s == node[n]
           l == recv_cipher_set(s)
       IN IF ~l.ok THEN Step(n, Fail(s, l.err), 1, <<>>)
          ELSE LET s1 == [s EXCEPT !.final_ciphers = l.val] IN
               Step(n, [s1 EXCEPT !.pc = "p4_recv"], 1, <<send_to_leader(s1, go_msg(s1), TRUE)>>)

\* run_phase4 of the leader: collect the votes, broadcast them, check them
Phase4Leader(n) ==
    /\ node[n].pc = "p4_recv" /\ am_leader(node[n])
    /\ CanRecv(n, n_nodes - 1)
    /\ LET s == node[n]
           k == n_nodes - 1
           data == Append(recv_from_n(s, k, FALSE).val, sign(s.id, s.key1, go_msg(s)))
           go_data == Pickle("golist", [votes |-> data])
           frames == broadcast_to_all_nodes(s, go_data, TRUE)
           c == check_go_data(hash_list(s.final_ciphers), go_data, s.pub_keys, s.round_id)
           s1 == [s EXCEPT !.go_data = go_data]
       IN IF ~c.ok THEN Step(n, Fail(s1, c.err), k, frames)
          ELSE Step(n, [s1 EXCEPT !.go_checked = TRUE, !.pc = "p5_start"], k, frames)

\* mutant: the vote set is stored and the node goes on whatever it says
Phase4Peer_nocheck(n) ==
    /\ node[n].pc = "p4_recv" /\ ~am_leader(node[n])
    /\ CanRecv(n, 1)
    /\ LET s == node[n]
           d == recv_from_n(s, 1, TRUE)
       IN IF ~d.ok THEN Step(n, Fail(s, d.err), 1, <<>>)
          ELSE Step(n, [s EXCEPT !.go_data = d.val[1], !.go_checked = TRUE,
                                 !.pc = "p5_start"], 1, <<>>)

\* run_phase4 of a non-leader: the vote set arrives and is checked
Phase4Peer(n) ==
    /\ node[n].pc = "p4_recv" /\ ~am_leader(node[n])
    /\ CanRecv(n, 1)
    /\ LET s == node[n]
           d == recv_from_n(s, 1, TRUE)
       IN IF ~d.ok THEN Step(n, Fail(s, d.err), 1, <<>>)
          ELSE LET c == check_go_data(hash_list(s.final_ciphers), d.val[1],
                                      s.pub_keys, s.round_id) IN
               IF ~c.ok THEN Step(n, Fail([s EXCEPT !.go_data = d.val[1]], c.err), 1, <<>>)
               ELSE Step(n, [s EXCEPT !.go_data = d.val[1], !.go_checked = TRUE,
                                      !.pc = "p5_start"], 1, <<>>)

\* ------------------------------------------------------------------------
\* Phase 5: decryption
\* ------------------------------------------------------------------------

\* mykeystr of run_phase5: the node's K2 private key
mykeystr(self) ==
    Pickle("key", [id |-> self.id, round |-> self.round_id, keystr |-> KeyToStr(self.key2)])

\* run_phase5 up to the first receive (a non-leader sends its key first)
Phase5Start(n) ==
    /\ node[n].pc = "p5_start"
    /\ LET s == advance_phase(node[n]) IN
       IF am_leader(s) THEN Step(n, [s EXCEPT !.pc = "p5_recv"], 0, <<>>)
       ELSE Step(n, [s EXCEPT !.pc = "p5_recv"], 0, <<send_to_leader(s, mykeystr(s), TRUE)>>)

\* run_phase5 of the leader: collect the keys, broadcast them, decrypt
Phase5Leader(n) ==
    /\ node[n].pc = "p5_recv" /\ am_leader(node[n])
    /\ CanRecv(n, n_nodes - 1)
    /\ LET s == node[n]
           k == n_nodes - 1
           data == Append(recv_from_n(s, k, FALSE).val, sign(s.id, s.key1, mykeystr(s)))
           frames == broadcast_to_all_nodes(s, Pickle("keylist", [reveals |-> data]), TRUE)
           r == decrypt_ciphers(s, data)
       IN IF ~r.ok THEN Step(n, Fail(s, r.err), k, frames)
          ELSE Step(n, [s EXCEPT !.anon_data = <<r.val>>, !.pc = "done"], k, frames)

\* mutant: anon_data is the list being filled, so a raise leaves it set
Phase5Peer_partial(n) ==
    /\ node[n].pc = "p5_recv" /\ ~am_leader(node[n])
    /\ CanRecv(n, 1)
    /\ LET s == node[n]
           d == recv_from_n(s, 1, TRUE)
       IN IF ~d.ok THEN Step(n, Fail(s, d.err), 1, <<>>)
          ELSE LET l == Loads("keylist", d.val[1]) IN
               IF ~l.ok THEN Step(n, Fail(s, l.err), 1, <<>>)
               ELSE LET r == decrypt_ciphers(s, l.val.reveals) IN
                    IF ~r.ok THEN Step(n, Fail([s EXCEPT !.anon_data = <<<<>>>>], r.err), 1, <<>>)
                    ELSE Step(n, [s EXCEPT !.anon_data = <<r.val>>, !.pc = "done"], 1, <<>>)

\* run_phase5 of a non-leader: the key set arrives, decrypt
Phase5Peer(n) ==
    /\ node[n].pc = "p5_recv" /\ ~am_leader(node[n])
    /\ CanRecv(n, 1)
    /\ LET s == node[n]
           d == recv_from_n(s, 1, TRUE)
       IN IF ~d.ok THEN Step(n, Fail(s, d.err), 1, <<>>)
          ELSE LET l == Loads("keylist", d.val[1]) IN
               IF ~l.ok THEN Step(n, Fail(s, l.err), 1, <<>>)
               ELSE LET r == decrypt_ciphers(s, l.val.reveals) IN
                    IF ~r.ok THEN Step(n, Fail(s, r.err), 1, <<>>)
                    ELSE Step(n, [s EXCEPT !.anon_data = <<r.val>>, !.pc = "done"], 1, <<>>)

\* ------------------------------------------------------------------------
\* A deviating forwarder in the Phase-3 ring
\* ------------------------------------------------------------------------

RemoveAt(l, j) == SubSeq(l, 1, j - 1) \o SubSeq(l, j + 1, Len(l))

\* the lists a deviating node may forward instead of the honest list l: an
\* element dropped, an extra copy of an element added, an element replaced by a
\* copy of another, by a made-up ciphertext, or by itself under another round_id
Alterations(l) ==
    {[kind |-> "drop", list |-> RemoveAt(l, 1)],
     [kind |-> "dup", list |-> Append(l, l[1])],
     [kind |-> "subst", list |-> [l EXCEPT ![1] = l[2]]],
     [kind |-> "forge", list |-> [l EXCEPT ![1] = CTuple(l[1].v.round, Str(<<>>))]],
     [kind |-> "round", list |-> [l EXCEPT ![1] = CTuple(3 - l[1].v.round, l[1].v.ctext)]]}

\* the deviant forwards an altered Phase-3 list, signed as its own
Tamper(d) ==
    /\ tampered = "none"
    /\ \E i \in 1..Len(inbox[d]) :
          LET f == inbox[d][i] IN
          /\ f.src = deviant /\ f.ph = 3
          /\ f.body.t = "sig" /\ f.body.msg.t = "pkl" /\ f.body.msg.kind = "list"
          /\ \E a \in Alterations(f.body.msg.v.items) :
                /\ tampered' = a.kind
                /\ inbox' = [inbox EXCEPT ![d][i].body.msg.v.items = a.list]
    /\ UNCHANGED <<n_nodes, node, deviant, killed, flip, pk>>

\* ------------------------------------------------------------------------
\* A node whose process is killed
\* ------------------------------------------------------------------------

\* the process of node k is killed once run_phase2 has returned: it has sent its
\* ciphertext and never runs run_phase3
Kill(k) ==
    /\ killed = k
    /\ node[k].pc = "p3_start"
    /\ node' = [node EXCEPT ![k].pc = "killed"]
    /\ UNCHANGED <<n_nodes, inbox, deviant, tampered, killed, flip, pk>>

\* ------------------------------------------------------------------------
\* A signed frame altered in transit
\* ------------------------------------------------------------------------

\* one signed frame on its way to node d is altered, so that its signature no
\* longer verifies against the K1 of the signer it names
Corrupt(d) ==
    /\ flip = "armed"
    /\ \E i \in 1..Len(inbox[d]) :
          /\ inbox[d][i].body.t = "sig"
          /\ inbox' = [inbox EXCEPT ![d][i].body.by = -1]
    /\ flip' = "done"
    /\ UNCHANGED <<n_nodes, node, deviant, tampered, killed, pk>>

Next ==
    \/ \E n \in Nodes : Phase1Start(n)
    \/ \E n \in Nodes : Phase1Leader(n)
    \/ \E n \in Nodes : Phase1Peer(n)
    \/ \E n \in Nodes : Phase2Start(n)
    \/ \E n \in Nodes : Phase2Leader(n)
    \/ \E n \in Nodes : Phase3Start(n)
    \/ \E n \in Nodes : Phase3Peer(n)
    \/ \E n \in Nodes : Phase3Leader(n)
    \/ \E n \in Nodes : Phase4Start(n)
    \/ \E n \in Nodes : Phase4PeerF(n)
    \/ \E n \in Nodes : Phase4Leader(n)
    \/ \E n \in Nodes : Phase4Peer(n)
    \/ \E n \in Nodes : Phase5Start(n)
    \/ \E n \in Nodes : Phase5Leader(n)
    \/ \E n \in Nodes : Phase5Peer(n)
    \/ \E n \in Nodes : Tamper(n)
    \/ \E n \in Nodes : Kill(n)
    \/ \E n \in Nodes : Corrupt(n)

Spec == Init /\ [][Next]_vars

\* the next step of run_protocol at node n, whichever it is
NodeSteps(n) ==
    \/ Phase1Start(n) \/ Phase1Leader(n) \/ Phase1Peer(n)
    \/ Phase2Start(n) \/ Phase2Leader(n)
    \/ Phase3Start(n) \/ Phase3Peer(n) \/ Phase3Leader(n)
    \/ Phase4Start(n) \/ Phase4PeerF(n) \/ Phase4Leader(n) \/ Phase4Peer(n)
    \/ Phase5Start(n) \/ Phase5Leader(n) \/ Phase5Peer(n)

\* the n_backlog of the recv_from_n node self is about to call or is blocked in
\* (0 before the first receive of a phase, -1 once run_protocol is over)
n_backlog(self) ==
    IF self.pc \in {"p1_start", "p2_start", "p3_start", "p4_start", "p5_start"} THEN 0
    ELSE IF self.pc \in {"done", "error", "killed"} THEN -1
    ELSE IF am_leader(self) /\ self.pc # "p3_recv" THEN self.n_nodes - 1
    ELSE 1

\* node n can take its next step: the frames its receive waits for have arrived
CanStep(n) == n_backlog(node[n]) >= 0 /\ CanRecv(n, n_backlog(node[n]))

\* weak fairness of NodeSteps(n), written out: CanStep(n) is ENABLED NodeSteps(n),
\* and a step of NodeSteps(n) is a step that changes node[n]
NodeFair(n) ==
    \/ []<>(~(n \in Nodes /\ CanStep(n)))
    \/ []<><<n \in Nodes /\ NodeSteps(n)>>_<<node, inbox>>

\* every node is a running process: it takes its next step once the frames its
\* blocking receive waits for have arrived
FairSpec ==
    Init /\ [][Next]_vars /\ \A n \in 0..(MaxNodes - 1) : NodeFair(n)

\* ------------------------------------------------------------------------
\* The packaging functions on their own
\* ------------------------------------------------------------------------

SeqsUpTo(A, k) == UNION {[1..j -> A] : j \in 0..k}

\* every message of at most MaxLen + 1 bytes over Alphabet under max_len = MaxLen,
\* and the runs of 'a' of at most BigLen + 1 bytes under max_len = BigLen
PkInputs ==
    {[msg |-> m, max_len |-> MaxLen] : m \in SeqsUpTo(Alphabet, MaxLen + 1)}
    \cup {[msg |-> Repeat(97, j), max_len |-> BigLen] : j \in 0..(BigLen + 1)}

PkInit ==
    /\ n_nodes = 0
    /\ node = <<>>
    /\ inbox = <<>>
    /\ deviant = -1
    /\ tampered = "none"
    /\ killed = -1
    /\ flip = "off"
    /\ \E i \in PkInputs :
          pk = [pc |-> "new", msg |-> i.msg, max_len |-> i.max_len, datum |-> <<>>, out |-> Err("")]

\* package_msg, as the constructor calls it
PkPackage ==
    /\ pk.pc = "new"
    /\ pk' = [pk EXCEPT !.datum = package_msg(pk.msg, pk.max_len), !.pc = "packaged"]
    /\ UNCHANGED <<n_nodes, node, inbox, deviant, tampered, killed, flip>>

\* unpackage_msg on the packaged datum, as decrypt_ciphers calls it
PkUnpackage ==
    /\ pk.pc = "packaged"
    /\ pk' = [pk EXCEPT !.out = unpackage_msg(pk.datum, pk.max_len), !.pc = "unpackaged"]
    /\ UNCHANGED <<n_nodes, node, inbox, deviant, tampered, killed, flip>>

PkNext == PkPackage \/ PkUnpackage

PkSpec == PkInit /\ [][PkNext]_vars

\* ------------------------------------------------------------------------
\* Properties
\* ------------------------------------------------------------------------

Count(x, l) == Cardinality({i \in 1..Len(l) : l[i] = x})

SameMultiset(a, b) ==
    /\ Len(a) = Len(b)
    /\ \A i \in 1..Len(a) : Count(a[i], a) = Count(a[i], b)

Frames == UNION {{inbox[d][i] : i \in 1..Len(inbox[d])} : d \in Nodes}

\* run_phase1 has returned at node n
Phase1Returned(n) == node[n].phase >= 2 \/ node[n].pc = "p2_start"

\* run_phase3 has returned at node n
Phase3Returned(n) == node[n].phase >= 4 \/ node[n].pc = "p4_start"

\* C1: when nobody deviates and every message fits max_len, the anon_data of a
\* node that finished run_phase5 is, as a multiset, the N original messages
C1_OutputsAreInputs ==
    (tampered = "none" /\ \A i \in Nodes : Len(node[i].msg) <= node[i].max_len)
    => \A n \in Nodes :
          node[n].pc = "done"
          => /\ Len(node[n].anon_data) = 1
             /\ SameMultiset(node[n].anon_data[1], [i \in 1..n_nodes |-> node[i - 1].msg])

C1_Witness ==
    /\ tampered = "none" /\ n_nodes = MaxNodes
    /\ \A n \in Nodes : node[n].pc = "done"
    /\ \E i \in Nodes : node[i].msg # DefaultMsg /\ Len(node[i].msg) = node[i].max_len

\* C2: when nobody deviates, the leader's data_in at the end of run_phase3 has
\* exactly N elements and is, as a multiset, the (round_id, cipher_prime) of the
\* N nodes; and the list has N elements at every hop of the ring
C2_FinalCipherSet ==
    tampered = "none"
    => /\ Phase3Returned(0)
          => SameMultiset(node[0].data_in,
                          [i \in 1..n_nodes |-> CTuple(node[i - 1].round_id, node[i - 1].cipher_prime)])
       /\ \A f \in Frames :
             (f.ph = 3 /\ f.body.t = "sig" /\ f.body.msg.kind = "list")
             => Len(f.body.msg.v.items) = n_nodes
       /\ \A n \in Nodes :
             node[n].phase >= 3 => /\ Len(node[n].data_in) \in {0, n_nodes}
                                   /\ Len(node[n].data_out) \in {0, n_nodes}

C2_Witness ==
    /\ tampered = "none" /\ n_nodes = MaxNodes
    /\ node[0].pc = "p4_start" /\ Len(node[0].data_in) = n_nodes

RECURSIVE HasPriv(_, _)
\* does the blob hold the k-th private key of some node in the clear
HasPriv(b, k) ==
    IF b.t = "priv" THEN b.k = k
    ELSE IF b.t = "pem" THEN HasPriv(b.key, k)
    ELSE IF b.t = "sig" THEN HasPriv(b.msg, k)
    ELSE IF b.t # "pkl" THEN FALSE
    ELSE IF b.kind = "join" THEN HasPriv(b.v.key1, k) \/ HasPriv(b.v.key2, k)
    ELSE IF b.kind = "keyset"
         THEN \E i \in DOMAIN b.v.keydict :
                 HasPriv(b.v.keydict[i][1], k) \/ HasPriv(b.v.keydict[i][2], k)
    ELSE IF b.kind = "key" THEN HasPriv(b.v.keystr, k)
    ELSE IF b.kind = "keylist" THEN \E i \in 1..Len(b.v.reveals) : HasPriv(b.v.reveals[i], k)
    ELSE FALSE

\* node self has passed check_go_data on a vote set holding, for every node id,
\* a validly signed vote with go = true and the hash of self's own final_ciphers
UnanimousGo(self) ==
    /\ self.go_checked
    /\ self.go_data.t = "pkl" /\ self.go_data.kind = "golist"
    /\ \A i \in Nodes :
          \E j \in 1..Len(self.go_data.v.votes) :
              LET v == verify(self.pub_keys, self.go_data.v.votes[j]) IN
              /\ v.ok /\ self.go_data.v.votes[j].id = i
              /\ v.val.v.id = i /\ v.val.v.go
              /\ v.val.v.hash = hash_list(self.final_ciphers)

\* C3: a frame holding a K2 private key is only ever sent by a node that has
\* passed check_go_data on a unanimous vote set, also when the list was altered
C3_NoKeyBeforeGo ==
    \A f \in Frames : HasPriv(f.body, 2) => UnanimousGo(node[f.src])

C3_Witness ==
    /\ tampered # "none"
    /\ \E f \in Frames : f.src # 0 /\ HasPriv(f.body, 2)

\* C4: a dropped, duplicated or substituted element is detected in Phase 4: no
\* node passes check_go_data and no node enters Phase 5
C4_AlterationDetected ==
    tampered \in {"drop", "dup", "subst"}
    => \A n \in Nodes : ~node[n].go_checked /\ node[n].phase <= 4

\* C5: two nodes that completed run_phase4 hold the same final_ciphers, in the
\* same order, and each finds its own (round_id, cipher_prime) in it
C5_AgreeOnFinalCiphers ==
    \A i, j \in Nodes :
        (node[i].go_checked /\ node[j].go_checked)
        => /\ node[i].final_ciphers = node[j].final_ciphers
           /\ hash_list(node[i].final_ciphers) = hash_list(node[j].final_ciphers)
           /\ InList(CTuple(node[i].round_id, node[i].cipher_prime), node[i].final_ciphers)

C5_Witness ==
    /\ tampered # "none" /\ n_nodes = MaxNodes
    /\ \A i \in Nodes : node[i].go_checked

\* C6: a node that is past run_phase1 holds one pub_keys entry per node id, and
\* once run_phase1 has returned everywhere all pub_keys mappings are the same
C6_SameKeyset ==
    /\ \A n \in Nodes :
          Phase1Returned(n)
          => /\ DOMAIN node[n].pub_keys = Nodes
             /\ Cardinality(DOMAIN node[n].pub_keys) = n_nodes
             /\ \A i \in Nodes : node[n].pub_keys[i] = <<PubKey(1, i), PubKey(2, i)>>
    /\ (\A n \in Nodes : Phase1Returned(n))
       => \A i, j \in Nodes : node[i].pub_keys = node[j].pub_keys

C6_Witness ==
    /\ n_nodes = MaxNodes
    /\ \A n \in Nodes : node[n].pc = "p2_start"

\* C7: a node that has received a foreign round_id sends no further frame and
\* produces no output
C7_AbortAtReceipt ==
    /\ \A f \in Frames : ~f.tainted
    /\ \A n \in Nodes : node[n].seen_bad_round => node[n].anon_data = <<>>

\* C8: a node whose message is longer than max_len never has a frame in flight
C8_TooLongNeverSends ==
    \A f \in Frames : Len(node[f.src].msg) <= node[f.src].max_len

\* C9: unpackage_msg gives back every message of at most max_len bytes that
\* package_msg packaged, and does not raise
C9_RoundTrip ==
    (pk.pc = "unpackaged" /\ Len(pk.msg) <= pk.max_len)
    => pk.out.ok /\ pk.out.val = pk.msg

C9_Witness ==
    /\ pk.pc = "unpackaged" /\ pk.out.ok
    /\ Len(pk.msg) = pk.max_len /\ pk.max_len > 0
    /\ pk.msg[Len(pk.msg)] = PadByte

\* C10: every packaged datum of a message of at most max_len bytes has the
\* length of the packaged empty message: max_len plus a header of fixed size
C10_SameLength ==
    (pk.pc = "packaged" /\ Len(pk.msg) <= pk.max_len)
    => Len(pk.datum) = Len(package_msg(<<>>, pk.max_len))

\* all nodes were given the same round_id and a message within max_len, and
\* nobody deviates
Consistent ==
    /\ deviant = -1 /\ tampered = "none" /\ killed = -1 /\ flip = "off"
    /\ \A i \in Nodes : /\ node[i].round_id = node[0].round_id
                         /\ Len(node[i].msg) <= node[i].max_len

\* run_protocol has returned at node n with phase 5 and anon_data set
Finished(n) ==
    node[n].pc = "done" /\ node[n].phase = 5 /\ Len(node[n].anon_data) = 1

\* C11: in a round with consistent configuration where every node follows the
\* protocol and every frame is delivered, every node eventually finishes
\* run_protocol with phase 5 and anon_data set; no node blocks for ever
C11_AllFinish == Consistent ~> (\A n \in Nodes : Finished(n))

C11_Witness ==
    /\ Consistent /\ n_nodes = 2
    /\ \A n \in Nodes : Finished(n)

\* C12: once node k has been killed after Phase 2, the leader and every node
\* after k in the ring stay in Phase 3 (with N = 3 and k = 1: nodes 0 and 2);
\* no node sends a vote or a K2 private key, and no node produces output
C12_KilledBlocksRound ==
    \A k \in Nodes :
        node[k].pc = "killed"
        => /\ \A n \in Nodes \ {k} :
                 /\ (n = 0 \/ n > k) => node[n].phase <= 3
                 /\ node[n].pc \notin {"done", "error"}
                 /\ node[n].anon_data = <<>> /\ ~node[n].go_checked
           /\ \A f \in Frames : f.ph <= 3 /\ ~HasPriv(f.body, 2)

C12_Witness ==
    /\ n_nodes = 3 /\ node[1].pc = "killed"
    /\ node[0].pc = "p3_recv" /\ node[0].phase = 3
    /\ node[2].pc = "p3_recv" /\ node[2].phase = 3
    /\ ~CanStep(0) /\ ~CanStep(2)

\* C13: a node that has taken a frame holding a signed blob whose signature no
\* longer verifies has failed with a bad-signature error: it has not decrypted
\* the content, counted it as a vote or used it as a key, and has no output
C13_BadSignatureAborts ==
    \A n \in Nodes :
        node[n].took_flipped
        => /\ node[n].pc = "error" /\ node[n].err = "BadSignature"
           /\ node[n].anon_data = <<>>
           /\ node[n].phase <= 4 => ~node[n].go_checked

C13_Witness ==
    /\ n_nodes = MaxNodes /\ flip = "done"
    /\ node[0].took_flipped /\ node[0].phase = 4
    /\ \E n \in Nodes \ {0} : node[n].took_flipped /\ node[n].err = "BadSignature"

\* shuffle_and_decrypt has returned at node k and its data_in is still the list
\* it worked on (the leader overwrites data_in at the end of run_phase3)
Shuffled(k) ==
    /\ Len(node[k].data_out) > 0
    /\ k = 0 => node[k].pc = "p3_recv"

\* the list node k received in Phase 3 from its ring predecessor
ReceivedList(k) == node[k - 1].data_out

Absent(i) ==
    /\ node[i].final_ciphers # <<>>
    /\ ~InList(CTuple(node[i].round_id, node[i].cipher_prime), node[i].final_ciphers)

\* b is a vote signed by node i that says go = False
VoteNo(i, b) ==
    /\ b.t = "sig" /\ b.id = i /\ b.by = i
    /\ b.msg.t = "pkl" /\ b.msg.kind = "go"
    /\ b.msg.v.id = i /\ ~b.msg.v.go

\* the pickled vote set gl holds a vote of node i that says go = False
NoVoteIn(i, gl) ==
    /\ gl.t = "pkl" /\ gl.kind = "golist"
    /\ \E j \in 1..Len(gl.v.votes) : VoteNo(i, gl.v.votes[j])

\* C15: a node that misses its own ciphertext in F does not raise at that point:
\* its signed vote with go = False goes to the leader and is part of every vote
\* set the leader broadcasts; every node that gets the vote set raises in
\* check_go_data, the voter included, and no node completes Phase 4
C15_CoordinatedAbort ==
    \A i \in Nodes :
        Absent(i)
        => /\ node[i].pc \in {"p4_recv", "error"}
           /\ node[i].pc = "error"
                 => /\ node[i].phase = 4 /\ node[i].err = "VerifyFailed"
                    /\ NoVoteIn(i, node[i].go_data)
           /\ i # 0
                 => \/ \E f \in Frames : f.src = i /\ f.to = 0 /\ VoteNo(i, f.body)
                    \/ NoVoteIn(i, node[0].go_data)
           /\ \A f \in Frames :
                 (f.body.t = "sig" /\ f.body.msg.t = "pkl" /\ f.body.msg.kind = "golist")
                 => NoVoteIn(i, f.body.msg)
           /\ \A n \in Nodes :
                 /\ ~node[n].go_checked /\ node[n].phase <= 4
                 /\ node[n].go_data # None
                       => /\ node[n].pc = "error" /\ node[n].err = "VerifyFailed"
                          /\ NoVoteIn(i, node[n].go_data)

C15_Witness ==
    /\ n_nodes = MaxNodes
    /\ \E i \in Nodes \ {0} : Absent(i) /\ NoVoteIn(i, node[i].go_data)
    /\ \A n \in Nodes : node[n].pc = "error" /\ node[n].phase = 4

RECURSIVE LayerKeys(_)
\* the keys of the encryption layers of c, outermost first, as <<k, id>> pairs
LayerKeys(c) == IF c.t = "enc" THEN <<<<c.k, c.id>>>> \o LayerKeys(c.body) ELSE <<>>

RECURSIVE Plain(_)
\* what is under all the encryption layers of c
Plain(c) == IF c.t = "enc" THEN Plain(c.body) ELSE c

\* the layers K1 of nodes from..N-1, then K2 of nodes 0..N-1
LayersFrom(from) ==
    [j \in 1..(n_nodes - from) |-> <<1, from + j - 1>>] \o [j \in 1..n_nodes |-> <<2, j - 1>>]

\* every element of list l is a (round_id, ctext) whose layers are, outermost
\* first, K1 of nodes from..N-1 and K2 of nodes 0..N-1 over a packaged datum
LayeredFrom(l, from) ==
    \A i \in 1..Len(l) :
        /\ l[i].t = "pkl" /\ l[i].kind = "ctuple"
        /\ LayerKeys(l[i].v.ctext) = LayersFrom(from)
        /\ \E n \in Nodes : Plain(l[i].v.ctext) = node[n].msg_contents

\* the K2 private keys of all nodes, as decrypt_ciphers collects them
AllK2 == [i \in Nodes |-> PrivKey(2, i)]

\* C16: in a run without deviation, the list that arrives at node k in Phase 3
\* has on every element the layers K1[k..N-1] over K2[0..N-1], so K1 of node k is
\* outermost and its one decryption succeeds; the list after node N-1 has K2 of
\* node 0 outermost, and decrypting with the K2 private keys 0, 1, ..., N-1 in
\* that order gives a packaged plaintext
C16_LayerOrder ==
    tampered = "none"
    => /\ node[0].pc = "p3_start" => LayeredFrom(node[0].data_in, 0)
       /\ \A f \in Frames :
             (f.ph = 3 /\ f.body.t = "sig" /\ f.body.msg.kind = "list")
             => /\ f.to = (f.src + 1) % n_nodes
                /\ LayeredFrom(f.body.msg.v.items, f.src + 1)
                /\ f.to # 0
                      => \A i \in 1..Len(f.body.msg.v.items) :
                            decrypt_with_rsa(PrivKey(1, f.to), f.body.msg.v.items[i].v.ctext).ok
       /\ \A n \in Nodes :
             /\ LayeredFrom(node[n].final_ciphers, n_nodes)
             /\ \A i \in 1..Len(node[n].final_ciphers) :
                   LET c == node[n].final_ciphers[i].v.ctext
                       d == DecryptUp(c, AllK2, 0, n_nodes)
                   IN /\ c.k = 2 /\ c.id = 0
                      /\ d.ok /\ \E m \in Nodes : d.val = node[m].msg_contents

C16_Witness ==
    /\ n_nodes = MaxNodes /\ tampered = "none"
    /\ node[n_nodes - 1].pc = "p3_recv"
    /\ \E f \in Frames : f.ph = 3 /\ f.to = n_nodes - 1 /\ f.src = n_nodes - 2
    /\ LayersFrom(n_nodes - 1)[1] = <<1, n_nodes - 1>>

\* the value of the phase counter at each position of run_protocol
PhaseAt(self) ==
    CASE self.pc = "p1_start" -> {0}
      [] self.pc \in {"p1_recv", "p2_start"} -> {1}
      [] self.pc \in {"p2_recv", "p3_start", "killed"} -> {2}
      [] self.pc \in {"p3_recv", "p4_start"} -> {3}
      [] self.pc \in {"p4_recvF", "p4_recv", "p5_start"} -> {4}
      [] self.pc \in {"p5_recv", "done"} -> {5}
      [] OTHER -> 1..5

\* the positions at which run_phase p is blocked in a receive
RecvAt(p) == IF p = 4 THEN {"p4_recvF", "p4_recv"} ELSE {"p" \o ToString(p) \o "_recv"}

\* the positions at which a run_phase function is about to be entered
PhaseEntry == {"p1_start", "p2_start", "p3_start", "p4_start", "p5_start"}

\* the frames that are put on node m's port in this step
SentTo(m) ==
    IF \E n \in Nodes : node'[n] # node[n]
    THEN LET n == CHOOSE n \in Nodes : node'[n] # node[n]
             old == IF m = n /\ n_backlog(node[n]) > 0
                    THEN Len(inbox[m]) - n_backlog(node[n]) ELSE Len(inbox[m])
         IN {inbox'[m][i] : i \in (old + 1)..Len(inbox'[m])}
    ELSE {}

\* C17: the phase counter is 0 at the start, only ever grows by one, never
\* exceeds 5, is p at every send and receive of phase p (the increment comes
\* first), and grows to p + 1 only where run_phase p has returned
C17_PhaseCounter ==
    [][ \A n \in Nodes :
          /\ node[n].phase \in PhaseAt(node[n]) /\ node'[n].phase \in PhaseAt(node'[n])
          /\ node[n].pc = "p1_start" => node[n].phase = 0
          /\ node'[n].phase \in {node[n].phase, node[n].phase + 1}
          /\ node'[n].phase <= 5
          /\ node'[n].phase = node[n].phase + 1
                <=> (node[n].pc \in PhaseEntry /\ node'[n].pc \notin {node[n].pc, "killed"})
          /\ node'[n].phase = node[n].phase + 1
                => /\ inbox'[n] = inbox[n]
                   /\ node'[n].pc \in RecvAt(node'[n].phase)
                                        \cup {"p" \o ToString(node'[n].phase + 1) \o "_start",
                                              "done", "error"}
          /\ (node'[n] # node[n] /\ node'[n].pc # "killed")
                => \A m \in Nodes : \A f \in SentTo(m) :
                      /\ f.src = n
                      /\ f.ph = node'[n].phase /\ f.ph \in 1..5
          /\ (node'[n] # node[n] /\ n_backlog(node[n]) > 0)
                => /\ node'[n].phase = node[n].phase
                   /\ node[n].phase \in 1..5
                   /\ node[n].pc \in RecvAt(node[n].phase)
      ]_vars

C17_Witness ==
    \E n \in Nodes : /\ node[n].pc = "done" /\ node[n].phase = 5
                      /\ \E m \in Nodes : node[m].pc = "p5_recv" /\ Len(inbox[m]) > 0

\* node n raised in decrypt_ciphers after it had decrypted and unpackaged some
\* element of final_ciphers
RaisedPartWay(n) ==
    /\ node[n].pc = "error" /\ node[n].phase = 5
    /\ node[n].err \in {"LengthMismatch", "DecryptFailed", "EncodingInvalid", "RoundMismatch"}
    /\ \E i \in 1..Len(node[n].final_ciphers) :
          DecryptAll(<<node[n].final_ciphers[i]>>, AllK2, node[n].round_id,
                     n_nodes, node[n].max_len).ok

\* C18: a node that raised, in whatever phase, has no anon_data, not even a
\* part of it; anon_data is there only at a node whose run_phase5 returned,
\* and is then the whole of final_ciphers decrypted and unpackaged
C18_NoPartialOutput ==
    \A n \in Nodes :
        /\ node[n].pc # "done" => node[n].anon_data = <<>>
        /\ node[n].anon_data # <<>>
              => /\ node[n].pc = "done" /\ node[n].phase = 5 /\ node[n].err = ""
                 /\ ~node[n].took_flipped
                 /\ Len(node[n].anon_data) = 1
                 /\ Ok(node[n].anon_data[1])
                      = DecryptAll(node[n].final_ciphers, AllK2, node[n].round_id,
                                   n_nodes, node[n].max_len)

C18_Witness == \E n \in Nodes : RaisedPartWay(n) /\ ~am_leader(node[n])

\* what a frame carries: the kind of the pickled value, signed or not
KindOf(f) == IF f.body.t = "sig" THEN f.body.msg.kind ELSE f.body.kind

\* the kind of message the receive at which self is blocked is for
ExpectedKind(self) ==
    CASE self.pc = "p1_recv" -> IF am_leader(self) THEN "join" ELSE "keyset"
      [] self.pc = "p2_recv" -> "ctuple"
      [] self.pc = "p3_recv" -> "list"
      [] self.pc = "p4_recvF" -> "list"
      [] self.pc = "p4_recv" -> IF am_leader(self) THEN "go" ELSE "golist"
      [] self.pc = "p5_recv" -> IF am_leader(self) THEN "key" ELSE "keylist"
      [] OTHER -> "none"

\* the nodes a message for the receive at which self is blocked may come from
ExpectedFrom(self) ==
    IF self.pc = "p3_recv" THEN {(self.id + self.n_nodes - 1) % self.n_nodes}
    ELSE IF am_leader(self) THEN 1..(self.n_nodes - 1)
    ELSE {0}

\* C19: whatever is on the port of a node blocked in a receive is what that
\* receive is for: of the node's phase, of the expected kind, from the expected
\* peers, one frame per peer and no more frames than the receive takes; what
\* is on the port of a node between two phases was sent in the phase the node
\* enters next
C19_NoCrossPhase ==
    \A n \in Nodes :
        LET s == node[n]
            k == n_backlog(s)
        IN /\ k > 0
                => /\ Len(inbox[n]) <= k
                   /\ \A i \in 1..Len(inbox[n]) :
                         LET f == inbox[n][i] IN
                         /\ f.ph = s.phase
                         /\ KindOf(f) = ExpectedKind(s)
                         /\ f.src \in ExpectedFrom(s)
                         /\ \A j \in 1..Len(inbox[n]) : inbox[n][j].src = f.src => j = i
           /\ k = 0 => \A i \in 1..Len(inbox[n]) : inbox[n][i].ph = s.phase + 1

C19_Witness ==
    /\ n_nodes = MaxNodes
    /\ node[0].pc = "p5_start" /\ Len(inbox[0]) > 0
    /\ \E n \in Nodes : node[n].pc = "p4_recv" /\ CanStep(n)

\* every node runs the code and no frame other than a Phase-3 list has been
\* altered on the wire; message lengths and round ids are whatever Init chose
OnlyPhase3Altered ==
    /\ killed = -1
    /\ flip = "done"
          => \/ \E f \in Frames : Flipped(f.body) /\ f.ph = 3
             \/ \E n \in Nodes : node[n].took_flipped /\ node[n].phase = 3

\* some node has put its K2 private key on the wire
K2Sent ==
    \/ \E f \in Frames : HasPriv(f.body, 2)
    \/ \E n \in Nodes : ~am_leader(node[n]) /\ node[n].phase = 5

\* C20: when every node runs the code, whatever the message lengths and
\* whatever was done to the Phase-3 list on its way, no node finishes
\* run_protocol while another has raised, and no K2 private key has been sent
\* if some node raised before Phase 5
C20_AllOrNothing ==
    OnlyPhase3Altered
    => /\ ~(\E a, b \in Nodes : node[a].pc = "done" /\ node[b].pc = "error")
       /\ (\E a \in Nodes : node[a].pc = "error" /\ node[a].phase <= 4)
             => /\ ~K2Sent
                /\ \A n \in Nodes : node[n].phase <= 4 /\ node[n].anon_data = <<>>

C20_Witness ==
    /\ OnlyPhase3Altered /\ n_nodes = MaxNodes
    /\ tampered # "none"
    /\ \A n \in Nodes : node[n].pc = "error" /\ node[n].phase = 4

====
